---- MODULE Spec2Model ----
(***************************************************************************)
(* State-machine model of the retropanel virtual controller:               *)
(*   ButtonSystem      (button press detector)                             *)
(*   StickGrabSystem   (grab arbiter)                                      *)
(* Lengths are in units of 0.1 mm, durations in ms.  The tracking runtime  *)
(* (XR session, hand adapters, joints, grip spaces, select triggers) is    *)
(* the environment: its state is held in the sensor variables, changed by  *)
(* the environment actions between frames and read by the update actions.  *)
(***************************************************************************)
EXTENDS Integers, Sequences, FiniteSets, TLC

VARIABLES
    \* ---- tracking runtime (environment) ----
    session,        \* renderer.xr.getSession() is non-null
    handAdapters,   \* xrInput.visualAdapters.hand is defined
    adapter,        \* adapter[h]: handAdapters[h] is an XRHandVisualAdapter
    tip,            \* tip[h]: index finger tip (joint 17) relative to the buttons
    grip,           \* grip[h]: gripSpace world position of hand h
    source,         \* source[h]: the XR input source / select trigger of side h
    \* ---- Button component + ButtonSystem ----
    posY,           \* buttonMesh.position.y
    restingY,       \* Button.restingY
    currState,      \* Button.currState
    prevState,      \* Button.prevState
    actionTriggered,\* Button.actionTriggered
    buttonActions,  \* buttonActions map: TRUE iff a non-null action is registered
    buttonFrame,    \* how the latest ButtonSystem.update() returned
    fired,          \* fired[b]: action() was invoked for b by the latest update
    holdFires,      \* invocations since b was last processed not fully_pressed
    gestureFires,   \* invocations since b was last processed without intrusion
    \* ---- StickGrab component + StickGrabSystem ----
    stickPos,       \* world position of the stick mesh
    attached,       \* StickGrab.attached
    justAttached,   \* StickGrab.justAttached
    justDetached,   \* StickGrab.justDetached
    attachedHands,  \* attachedHands map: the owner of a stick, or "none"
    previousButtonStates, \* previousButtonStates map (absent = FALSE)
    handStarted,    \* hand.justStartedSelecting stored on the adapter
    handStopped,    \* hand.justStoppedSelecting stored on the adapter
    grabFrame,      \* how the latest StickGrabSystem.update() returned
    attachTicks,    \* consecutive updates that ended with justAttached set
    detachTicks,    \* consecutive updates that ended with justDetached set
    \* ---- AnalogStick component + AnalogStickSystem ----
    grabbedHands,   \* grabbedHands map: the hand tracked for a stick, or "none"
    grabHandPositions, \* grabHandPositions map: the grab-reference point
    stickX,         \* AnalogStick.stickX, in units of 1 / MaxRadius
    stickY,         \* AnalogStick.stickY, in units of 1 / MaxRadius
    stickMagnitude, \* AnalogStick.stickMagnitude, in units of 1 / MaxRadius
    isActive,       \* AnalogStick.isActive
    stickFrame,     \* stickFrame[s]: the branch the latest update took for s
    anchorUsed,     \* anchorUsed[s]: the hand position the latest update read
    \* ---- NESSystem ----
    nes,            \* this.nes: "none", or an instance "empty" / "loaded" with a ROM
    isInitializing, \* this.isInitializing
    meshName,       \* meshName[b]: the name of the mesh of button entity b
    buttonEntityMap,\* buttonEntityMap: mesh name -> button entity, 0 when absent
    stickEntity,    \* this.stickEntity: the stick entity, 0 when null
    pad,            \* controller 1 of the emulator as last pushed: TRUE = down
    nesFrame,       \* how the latest NESSystem.update() returned
    loading,        \* calls of initializeNES() that have not settled yet
    \* ---- world.update ----
    turn,           \* the system world.update runs next and the delta of the tick
    clock           \* the Clock of the animation loop and the time, ms

sensorVars == <<session, handAdapters, adapter, tip, grip, source>>
buttonVars == <<posY, restingY, currState, prevState, actionTriggered,
                buttonActions, buttonFrame, fired, holdFires, gestureFires>>
grabVars == <<stickPos, attached, justAttached, justDetached, attachedHands,
              previousButtonStates, handStarted, handStopped, grabFrame,
              attachTicks, detachTicks>>
stickVars == <<grabbedHands, grabHandPositions, stickX, stickY, stickMagnitude,
               isActive, stickFrame, anchorUsed>>
nesVars == <<nes, isInitializing, meshName, buttonEntityMap, stickEntity, pad,
             nesFrame, loading>>
vars == <<sensorVars, buttonVars, grabVars, stickVars, nesVars, turn, clock>>

----------------------------------------------------------------------------
\* Entities and hands

\* Object.entries(handAdapters) order
Hands == <<"left", "right">>
HandIds == {"left", "right"}

\* pressable entities (Button + HandPressable)
Buttons == {1}

\* stick entities (StickGrab), in query order
Sticks == <<1, 2>>
StickIds == {1, 2}

\* mesh names of the panel buttons and the signals of controller 1
ButtonNames == {"button1", "button2", "button3", "button4"}
PadButtons == {"A", "B", "Select", "Start", "Up", "Down", "Left", "Right"}

\* ---- program constants (0.1 mm, ms) ----
RestingYDefault == -10000
FullPressDistance == 200
RecoverySpeed == 4
Tolerance == 16

CaptureRadius == 1000

\* AnalogStick of the panel: maxRadius 0.03 m, returnSpeed 5 per second
MaxRadius == 300
ReturnSpeed == 5
\* "distance > 0.001" of the spring return
SnapDistance == 10

\* ---- bounds of the model ----
\* the action counters saturate here
MaxFires == 2
\* lowest mesh position followed (a button whose resting position is
\* re-captured every frame sinks without limit)
MaxSink == 250
\* the pulse tick counters saturate here
MaxTicks == 2
\* farthest stick coordinate followed (a stick whose spring return is
\* stepped with returnSpeed * delta > 2 moves away from its rest position)
MaxDrift == 450

\* frame durations handed to update(delta), ms
Deltas == {0, 25, 100}
\* raw pressing distance surfaceY - localPos.y of a finger tip inside the box
RawDistances == {-20, -10, 100, 200, 300}
\* initial mesh positions
InitialYs == {-50, 0}

\* frame durations handed to the stick update, ms
StickDeltas == {0, 200, 500}

Max(a, b) == IF a >= b THEN a ELSE b
Min(a, b) == IF a <= b THEN a ELSE b

RECURSIVE MaxOf(_)
\* Math.max(...xs) of a non-empty sequence
MaxOf(xs) ==
    IF Len(xs) = 1 THEN xs[1] ELSE Max(xs[1], MaxOf(Tail(xs)))

----------------------------------------------------------------------------
\* Sensor values

NoTip == [found |-> FALSE, inside |-> 0, pd |-> 0]
OutsideTip == [found |-> TRUE, inside |-> 0, pd |-> 0]
\* the index finger tip of a hand: not found, found outside every button's
\* box, or found inside the box of button `inside` at raw distance pd
TipValues ==
    {NoTip, OutsideTip}
    \cup {[found |-> TRUE, inside |-> b, pd |-> d] : b \in Buttons, d \in RawDistances}

NoGrip == [found |-> FALSE, x |-> 0, z |-> 0]
\* rest positions of the sticks and places a grip space can be at (x, z)
StickRest == <<[x |-> 0, z |-> 0], [x |-> 800, z |-> 0]>>
GripPlaces == {<<200, 0>>, <<300, 0>>, <<500, 0>>, <<-1000, 0>>}
GripValues ==
    {NoGrip} \cup {[found |-> TRUE, x |-> p[1], z |-> p[2]] : p \in GripPlaces}
\* places of a hand around the first stick, on one line through its rest
\* position
AnchorPlaces == {<<0, 0>>, <<90, 120>>, <<-180, -240>>, <<-300, -400>>}
AnchorValues ==
    {NoGrip} \cup {[found |-> TRUE, x |-> p[1], z |-> p[2]] : p \in AnchorPlaces}
\* what the index finger tip / raySpace fallback yields for a hand without
\* a grip space: nothing, or a position
FallbackValues ==
    {NoGrip} \cup {[found |-> TRUE, x |-> p[1], z |-> p[2]] : p \in {<<0, 0>>, <<90, 120>>}}
\* the input source of a side: none with a hand, one without a gamepad, or
\* one whose primary button is up or down
SourceValues == {"nosource", "nogamepad", "up", "down"}

\* hands.push(adapter) for each adapter that is an XRHandVisualAdapter
HandsList == SelectSeq(Hands, LAMBDA h : adapter[h])

----------------------------------------------------------------------------
\* ButtonSystem.update

\* pressing distance pushed for button b by hand h, as a sequence of 0 or 1
\* element
HandPress(b, h) ==
    IF tip[h].found /\ tip[h].inside = b /\ tip[h].pd > -Tolerance
    THEN <<Max(0, tip[h].pd)>>
    ELSE <<>>

RECURSIVE PressesOf(_, _)
PressesOf(b, hs) ==
    IF hs = <<>> THEN <<>> ELSE HandPress(b, Head(hs)) \o PressesOf(b, Tail(hs))

\* pressingDistances collected over hands.forEach
PressingDistances(b) == PressesOf(b, HandsList)

\* restingY as used by the frame: captured from the mesh while it is < 0
CaptureResting(r, y) == IF r < 0 THEN y ELSE r

\* variant: a button found at or above restingY is left where it is
RecoverLoose(y, r, delta) ==
    IF y < r
    THEN [y |-> y + RecoverySpeed * delta, state |-> "recovering"]
    ELSE [y |-> y, state |-> "resting"]

\* recovery branch
Recover(y, r, delta) ==
    IF y < r
    THEN [y |-> y + RecoverySpeed * delta, state |-> "recovering"]
    ELSE [y |-> r, state |-> "resting"]

\* pressed branch
Press(y, r, pds) ==
    LET maxPressingDistance == MaxOf(pds)
        moved == IF maxPressingDistance > 0
                 THEN Max(r - maxPressingDistance, r - FullPressDistance)
                 ELSE y
    IN  IF moved <= r - FullPressDistance
        THEN [y |-> r - FullPressDistance, state |-> "fully_pressed"]
        ELSE [y |-> moved, state |-> "pressed"]

\* position and state of a button after the collision handling
Collide(y, r, pds, delta) ==
    IF Len(pds) = 0 THEN Recover(y, r, delta) ELSE Press(y, r, pds)

\* variant: the action is invoked on every frame the button is fully pressed
ShouldFireLevel(curr, prev, hasAction, triggered) ==
    curr = "fully_pressed" /\ hasAction

\* the action is invoked
ShouldFire(curr, prev, hasAction, triggered) ==
    curr = "fully_pressed" /\ prev # "fully_pressed" /\ hasAction /\ ~triggered

\* variant: the flag is kept until the button is back at rest
NextTriggeredSticky(curr, prev, hasAction, triggered) ==
    IF curr = "fully_pressed" /\ prev # "fully_pressed"
    THEN (triggered \/ hasAction)
    ELSE IF curr = "resting" THEN FALSE ELSE triggered

\* Button.actionTriggered after the trigger block
NextTriggered(curr, prev, hasAction, triggered) ==
    IF curr = "fully_pressed" /\ prev # "fully_pressed"
    THEN (triggered \/ hasAction)
    ELSE IF curr # "fully_pressed" THEN FALSE ELSE triggered

\* the return taken by update(): the guards in source order
ButtonFrameKind ==
    IF ~session THEN "noSession"
    ELSE IF ~handAdapters THEN "noAdapters"
    ELSE IF Len(HandsList) = 0 THEN "noHands"
    ELSE "processed"

ButtonSystemUpdate(delta) ==
    /\ UNCHANGED <<sensorVars, buttonActions>>
    /\ buttonFrame' = ButtonFrameKind
    /\ IF ButtonFrameKind # "processed"
       THEN /\ fired' = [b \in Buttons |-> FALSE]
            /\ UNCHANGED <<posY, restingY, currState, prevState, actionTriggered,
                           holdFires, gestureFires>>
       ELSE LET r(b) == CaptureResting(restingY[b], posY[b])
                pds(b) == PressingDistances(b)
                hit(b) == Collide(posY[b], r(b), pds(b), delta)
                fire(b) == ShouldFire(hit(b).state, currState[b],
                                      buttonActions[b], actionTriggered[b])
            IN  /\ restingY' = [b \in Buttons |-> r(b)]
                /\ prevState' = currState
                /\ posY' = [b \in Buttons |-> hit(b).y]
                /\ currState' = [b \in Buttons |-> hit(b).state]
                /\ actionTriggered' =
                     [b \in Buttons |->
                        NextTriggered(hit(b).state, currState[b],
                                      buttonActions[b], actionTriggered[b])]
                /\ fired' = [b \in Buttons |-> fire(b)]
                /\ holdFires' =
                     [b \in Buttons |->
                        LET base == IF hit(b).state = "fully_pressed"
                                    THEN holdFires[b] ELSE 0
                        IN  Min(MaxFires, base + (IF fire(b) THEN 1 ELSE 0))]
                /\ gestureFires' =
                     [b \in Buttons |->
                        LET base == IF Len(pds(b)) > 0
                                    THEN gestureFires[b] ELSE 0
                        IN  Min(MaxFires, base + (IF fire(b) THEN 1 ELSE 0))]
                /\ \A b \in Buttons : posY'[b] >= -MaxSink

\* one frame of the button controller, for some frame duration
ButtonFrame == \E delta \in Deltas : ButtonSystemUpdate(delta)

----------------------------------------------------------------------------
\* StickGrabSystem.update

\* squared distance between two points
Dist2(p, q) == (p.x - q.x) * (p.x - q.x) + (p.z - q.z) * (p.z - q.z)

\* select-trigger reading of side h: inputSource.gamepad.buttons[0].pressed
HasGamepad(h) == source[h] \in {"up", "down"}
IsPressed(h) == source[h] = "down"

\* the hands loop reaches the trigger check for h
GripFound(h) == grip[h].found

\* variant: a held trigger counts as just started
JustStartedSelectingLevel(h) == HasGamepad(h) /\ IsPressed(h)

\* the per-hand part of the loop: edges against previousButtonStates
JustStartedSelecting(h) == HasGamepad(h) /\ IsPressed(h) /\ ~previousButtonStates[h]
JustStoppedSelecting(h) == HasGamepad(h) /\ ~IsPressed(h) /\ previousButtonStates[h]

RECURSIVE InsertByDistance(_, _, _)
\* stable insertion of stick s into the sequence sorted by distance from p
InsertByDistance(s, sorted, p) ==
    IF sorted = <<>> THEN <<s>>
    ELSE IF Dist2(stickPos[s], p) < Dist2(stickPos[Head(sorted)], p)
         THEN <<s>> \o sorted
         ELSE <<Head(sorted)>> \o InsertByDistance(s, Tail(sorted), p)

RECURSIVE SortByDistance(_, _)
\* .sort((a, b) => a.distance - b.distance), ties in query order
SortByDistance(ss, p) ==
    IF ss = <<>> THEN <<>>
    ELSE InsertByDistance(ss[Len(ss)], SortByDistance(SubSeq(ss, 1, Len(ss) - 1), p), p)

\* variant: every stick counts as not attached
UnattachedAny(s) == TRUE

\* !StickGrab.data.attached[idx] || StickGrab.data.attached[idx] === 0
Unattached(s) == ~attached[s]

\* sticks not attached, nearest to hand h first
AvailableSticks(h) ==
    SortByDistance(SelectSeq(Sticks, Unattached), grip[h])

\* variant: the farthest unattached stick is entered
GrabCandidateFarthest(h) ==
    LET avail == AvailableSticks(h)
    IN  IF /\ Len(avail) > 0
           /\ (JustStartedSelecting(h) \/ (HasGamepad(h) /\ IsPressed(h)))
           /\ Dist2(stickPos[avail[Len(avail)]], grip[h]) < CaptureRadius * CaptureRadius
        THEN avail[Len(avail)]
        ELSE 0

\* the stick hand h enters into attachMap, 0 when it enters none
GrabCandidate(h) ==
    LET avail == AvailableSticks(h)
    IN  IF /\ Len(avail) > 0
           /\ (JustStartedSelecting(h) \/ (HasGamepad(h) /\ IsPressed(h)))
           /\ Dist2(stickPos[avail[1]], grip[h]) < CaptureRadius * CaptureRadius
        THEN avail[1]
        ELSE 0

RECURSIVE AttachMapOf(_, _)
\* attachMap after hands.forEach over hs, starting from map m:
\* attachMap.set(closest, hand) replaces an earlier entry
AttachMapOf(hs, m) ==
    IF hs = <<>> THEN m
    ELSE LET h == Head(hs)
             c == IF GripFound(h) THEN GrabCandidate(h) ELSE 0
         IN  AttachMapOf(Tail(hs), IF c = 0 THEN m ELSE [m EXCEPT ![c] = h])

\* the return taken by update(): the guards in source order
GrabFrameKind ==
    IF ~handAdapters THEN "noAdapters"
    ELSE IF ~session THEN "noSession"
    ELSE "processed"

\* a hand the loop processes up to the trigger bookkeeping
Scanned(h) == adapter[h] /\ GripFound(h)

\* variant: a held trigger grabs as well
ShouldAttachHeld(s, attachMap, started) ==
    attachMap[s] # "none"

\* the stick is grabbed by the hand entered for it
ShouldAttach(s, attachMap, started) ==
    attachMap[s] # "none" /\ started[attachMap[s]]

\* variant: the owner lets go only on a falling edge of its trigger
ShouldDetachEdge(s, stopped) ==
    attachedHands[s] # "none" /\ stopped[attachedHands[s]]

\* the owner of an attached stick lets go
ShouldDetach(s, stopped) ==
    LET owner == attachedHands[s]
        stillSelecting == HasGamepad(owner) /\ IsPressed(owner)
    IN  owner # "none" /\ (~stillSelecting \/ stopped[owner])

\* variant: the pulses are not cleared at the start of the stick's turn
PulseAfterKept(old, set) == old \/ set

\* a pulse flag after "= 0" at the start of the stick's turn and "= 1" in
\* the branch that sets it
PulseAfter(old, set) == set

\* consecutive updates, this one included, that ended with the pulse set
TicksAfter(ticks, pulse) ==
    IF pulse THEN Min(MaxTicks, ticks + 1) ELSE 0

\* variant: a detach leaves the owner entry in place
OwnerAfterKept(s, attach, detach, attachMap) ==
    IF attach THEN attachMap[s] ELSE attachedHands[s]

\* attachedHands entry of stick s after attachedHands.set / .delete
OwnerAfter(s, attach, detach, attachMap) ==
    IF attach THEN attachMap[s]
    ELSE IF detach THEN "none"
    ELSE attachedHands[s]

StickGrabSystemUpdate ==
    /\ UNCHANGED sensorVars
    /\ grabFrame' = GrabFrameKind
    /\ IF GrabFrameKind # "processed"
       THEN UNCHANGED <<attached, justAttached, justDetached, attachedHands,
                        previousButtonStates, handStarted, handStopped>>
       ELSE LET attachMap == AttachMapOf(HandsList, [s \in StickIds |-> "none"])
                started == [h \in HandIds |->
                              IF Scanned(h) THEN JustStartedSelecting(h)
                              ELSE handStarted[h]]
                stopped == [h \in HandIds |->
                              IF Scanned(h) THEN JustStoppedSelecting(h)
                              ELSE handStopped[h]]
                attach(s) == Unattached(s) /\ ShouldAttach(s, attachMap, started)
                detach(s) == ~Unattached(s) /\ ShouldDetach(s, stopped)
            IN  /\ previousButtonStates' =
                     [h \in HandIds |->
                        IF Scanned(h) /\ HasGamepad(h) THEN IsPressed(h)
                        ELSE previousButtonStates[h]]
                /\ handStarted' = started
                /\ handStopped' = stopped
                /\ justAttached' =
                     [s \in StickIds |-> PulseAfter(justAttached[s], attach(s))]
                /\ justDetached' =
                     [s \in StickIds |-> PulseAfter(justDetached[s], detach(s))]
                /\ attached' = [s \in StickIds |->
                                  IF attach(s) THEN TRUE
                                  ELSE IF detach(s) THEN FALSE
                                  ELSE attached[s]]
                /\ attachedHands' =
                     [s \in StickIds |-> OwnerAfter(s, attach(s), detach(s), attachMap)]
    /\ attachTicks' = [s \in StickIds |-> TicksAfter(attachTicks[s], justAttached'[s])]
    /\ detachTicks' = [s \in StickIds |-> TicksAfter(detachTicks[s], justDetached'[s])]

\* one frame of the grab arbiter
GrabFrame == StickGrabSystemUpdate /\ UNCHANGED stickPos

----------------------------------------------------------------------------
\* AnalogStickSystem.update

\* division of the fixed-point arithmetic, rounding toward zero
TDiv(a, b) == IF a >= 0 THEN a \div b ELSE -((-a) \div b)

RECURSIVE RootBetween(_, _, _)
\* the largest n in lo..hi with n * n <= x
RootBetween(x, lo, hi) ==
    IF lo >= hi THEN lo
    ELSE LET mid == (lo + hi + 1) \div 2
         IN  IF mid * mid <= x THEN RootBetween(x, mid, hi)
             ELSE RootBetween(x, lo, mid - 1)

\* Math.sqrt, to the resolution of the model
ISqrt(x) == RootBetween(x, 0, Min(x, 2 * (MaxDrift + CaptureRadius)))

\* Math.sqrt(deltaX * deltaX + deltaZ * deltaZ)
PlanarDistance(p, q) == ISqrt(Dist2(p, q))

\* initialPositions.get(idx): the rest position, recorded on first observation
InitialPos(s) == StickRest[s]

\* the position of the grabbing hand: gripSpace, else the index finger tip /
\* raySpace fallback
HandPositionOf(h, fb) == IF grip[h].found THEN grip[h] ELSE fb[h]

\* variant: the grab-reference point follows the hand on every frame
RefAfterMoved(ref, justGrabbed, hand) == hand

\* grabHandPositions entry after the justGrabbed block
RefAfter(ref, justGrabbed, hand) == IF justGrabbed THEN hand ELSE ref

\* variant: the displacement is not scaled down
ClampMoveSoft(d, hd) == d

\* one coordinate of the displacement, constrained to the circle of maxRadius
ClampMove(d, hd) ==
    IF hd > MaxRadius THEN TDiv(d * MaxRadius, hd) ELSE d

\* variant: the magnitude is limited to 2
MagnitudeWide(hd) == Min(hd, 2 * MaxRadius)

\* variant: the magnitude is not limited to 1
MagnitudeRaw(hd) == hd

\* Math.min(horizontalDistance / maxRadius, 1.0)
MagnitudeOf(hd) == Min(hd, MaxRadius)

\* Math.max(-1, Math.min(1, v))
ClampAxis(v) == Max(-MaxRadius, Min(MaxRadius, v))

\* one coordinate of currentPos.lerp(initialPos, returnSpeed * delta)
Lerp(cur, init, delta) == cur + TDiv((init - cur) * ReturnSpeed * delta, 1000)

\* the grabbed branch for stick s held by hand own
Grabbed(s, justGrabbed, own, fb, base) ==
    LET hand == HandPositionOf(own, fb)
        ref == RefAfter(grabHandPositions[s], justGrabbed, hand)
        deltaX == hand.x - ref.x
        deltaZ == hand.z - ref.z
        horizontalDistance == PlanarDistance(hand, ref)
        moveX == ClampMove(deltaX, horizontalDistance)
        moveZ == ClampMove(deltaZ, horizontalDistance)
        magnitude == MagnitudeOf(horizontalDistance)
    IN  IF ~hand.found
        THEN [base EXCEPT !.frame = "noPosition"]
        ELSE IF ~ref.found
        THEN [base EXCEPT !.frame = "noReference", !.anchor = hand, !.ref = hand]
        ELSE [base EXCEPT
                !.frame = "axis", !.anchor = hand, !.ref = ref,
                !.pos = [x |-> InitialPos(s).x + moveX, z |-> InitialPos(s).z + moveZ],
                !.x = ClampAxis(IF magnitude > 0 THEN moveX ELSE 0),
                !.y = ClampAxis(IF magnitude > 0 THEN moveZ ELSE 0),
                !.mag = magnitude,
                !.active = TRUE]

\* variant: active only above half of the full deflection
ReleasedDull(s, delta, base) ==
    LET cur == stickPos[s]
        init == InitialPos(s)
        deltaX == cur.x - init.x
        deltaZ == cur.z - init.z
        magnitude == MagnitudeOf(PlanarDistance(cur, init))
    IN  IF Dist2(cur, init) > SnapDistance * SnapDistance
        THEN [base EXCEPT
                !.frame = "return",
                !.pos = [x |-> Lerp(cur.x, init.x, delta),
                         z |-> Lerp(cur.z, init.z, delta)],
                !.x = IF magnitude > 0 THEN deltaX ELSE 0,
                !.y = IF magnitude > 0 THEN deltaZ ELSE 0,
                !.mag = magnitude,
                !.active = (magnitude * 2 > MaxRadius)]
        ELSE [base EXCEPT
                !.frame = "snap", !.pos = init,
                !.x = 0, !.y = 0, !.mag = 0, !.active = FALSE]

\* the not-grabbed branch: spring return toward the rest position
Released(s, delta, base) ==
    LET cur == stickPos[s]
        init == InitialPos(s)
        deltaX == cur.x - init.x
        deltaZ == cur.z - init.z
        magnitude == MagnitudeOf(PlanarDistance(cur, init))
    IN  IF Dist2(cur, init) > SnapDistance * SnapDistance
        THEN [base EXCEPT
                !.frame = "return",
                !.pos = [x |-> Lerp(cur.x, init.x, delta),
                         z |-> Lerp(cur.z, init.z, delta)],
                !.x = IF magnitude > 0 THEN deltaX ELSE 0,
                !.y = IF magnitude > 0 THEN deltaZ ELSE 0,
                !.mag = magnitude,
                !.active = (magnitude * 100 > MaxRadius)]
        ELSE [base EXCEPT
                !.frame = "snap", !.pos = init,
                !.x = 0, !.y = 0, !.mag = 0, !.active = FALSE]

\* the turn of stick s, reading the StickGrab data att, justGrabbed, own
StickStep(s, att, justGrabbed, own, fb, delta) ==
    LET forget == ~att /\ grabbedHands[s] # "none"
        base == [frame |-> "none", anchor |-> NoGrip,
                 hand |-> IF att /\ own # "none" THEN own
                          ELSE IF forget THEN "none" ELSE grabbedHands[s],
                 ref |-> IF forget THEN NoGrip ELSE grabHandPositions[s],
                 pos |-> stickPos[s], x |-> stickX[s], y |-> stickY[s],
                 mag |-> stickMagnitude[s], active |-> isActive[s]]
    IN  IF att /\ own # "none"
        THEN Grabbed(s, justGrabbed, own, fb, base)
        ELSE Released(s, delta, base)

\* update(delta), run after StickGrabSystem.update in the same tick; fb is
\* what the fallbacks yield for each hand
AnalogStickSystemUpdate(delta, fb) ==
    IF ~handAdapters
    THEN /\ stickFrame' = [s \in StickIds |-> "skipped"]
         /\ UNCHANGED <<stickPos, grabbedHands, grabHandPositions, stickX, stickY,
                        stickMagnitude, isActive, anchorUsed>>
    ELSE \E step \in {[s \in StickIds |->
                         StickStep(s, attached'[s], justAttached'[s],
                                   attachedHands'[s], fb, delta)]} :
             /\ stickFrame' = [s \in StickIds |-> step[s].frame]
             /\ anchorUsed' = [s \in StickIds |-> step[s].anchor]
             /\ grabbedHands' = [s \in StickIds |-> step[s].hand]
             /\ grabHandPositions' = [s \in StickIds |-> step[s].ref]
             /\ stickPos' = [s \in StickIds |-> step[s].pos]
             /\ stickX' = [s \in StickIds |-> step[s].x]
             /\ stickY' = [s \in StickIds |-> step[s].y]
             /\ stickMagnitude' = [s \in StickIds |-> step[s].mag]
             /\ isActive' = [s \in StickIds |-> step[s].active]
             /\ \A s \in StickIds :
                   /\ stickPos'[s].x - InitialPos(s).x \in -MaxDrift .. MaxDrift
                   /\ stickPos'[s].z - InitialPos(s).z \in -MaxDrift .. MaxDrift

\* one tick of the stick: the grab arbiter, then the axis mapper
\* the fallbacks are consulted for the hands without a grip space
Fallbacks ==
    {fb \in [HandIds -> FallbackValues] :
        \A h \in HandIds : grip[h].found => fb[h] = NoGrip}

StickTick ==
    \E delta \in StickDeltas, fb \in Fallbacks :
        StickGrabSystemUpdate /\ AnalogStickSystemUpdate(delta, fb)

----------------------------------------------------------------------------
\* NESSystem.update

\* variant: only a fully pressed button counts as down
IsDownFull(state) == state = "fully_pressed"

\* state === 'pressed' || state === 'fully_pressed'
IsDown(state) == state \in {"pressed", "fully_pressed"}

\* getButtonState(buttonName), reading the Button states curr
GetButtonState(buttonName, map, curr) ==
    IF map[buttonName] = 0 THEN FALSE ELSE IsDown(curr[map[buttonName]])

\* variant: up and down exchanged
GetDpadStateFlipped(stick, x, y, magnitude) ==
    IF stick = 0
    THEN [up |-> FALSE, down |-> FALSE, left |-> FALSE, right |-> FALSE]
    ELSE LET over == 10 * magnitude[stick] > 3 * MaxRadius
         IN  [up |-> over /\ 2 * y[stick] > MaxRadius,
              down |-> over /\ 2 * y[stick] < -MaxRadius,
              left |-> over /\ 2 * x[stick] < -MaxRadius,
              right |-> over /\ 2 * x[stick] > MaxRadius]

\* variant: down and right test the size of the axis only
GetDpadStateAbs(stick, x, y, magnitude) ==
    IF stick = 0
    THEN [up |-> FALSE, down |-> FALSE, left |-> FALSE, right |-> FALSE]
    ELSE LET over == 10 * magnitude[stick] > 3 * MaxRadius
         IN  [up |-> over /\ 2 * y[stick] < -MaxRadius,
              down |-> over /\ (2 * y[stick] > MaxRadius \/ 2 * y[stick] < -MaxRadius),
              left |-> over /\ 2 * x[stick] < -MaxRadius,
              right |-> over /\ (2 * x[stick] > MaxRadius \/ 2 * x[stick] < -MaxRadius)]

\* getDpadState(), reading the AnalogStick data x, y, magnitude:
\* threshold 0.3 of the magnitude, 0.5 of an axis
GetDpadState(stick, x, y, magnitude) ==
    IF stick = 0
    THEN [up |-> FALSE, down |-> FALSE, left |-> FALSE, right |-> FALSE]
    ELSE LET over == 10 * magnitude[stick] > 3 * MaxRadius
         IN  [up |-> over /\ 2 * y[stick] < -MaxRadius,
              down |-> over /\ 2 * y[stick] > MaxRadius,
              left |-> over /\ 2 * x[stick] < -MaxRadius,
              right |-> over /\ 2 * x[stick] > MaxRadius]

\* the signals updateNESInputs() pushes with buttonDown / buttonUp
NESInputs(map, stick, curr, x, y, magnitude) ==
    LET dpadState == GetDpadState(stick, x, y, magnitude)
    IN  [k \in PadButtons |->
           CASE k = "A" -> GetButtonState("button2", map, curr)
             [] k = "B" -> GetButtonState("button1", map, curr)
             [] k = "Start" -> GetButtonState("button4", map, curr)
             [] k = "Select" -> GetButtonState("button3", map, curr)
             [] k = "Up" -> dpadState.up
             [] k = "Down" -> dpadState.down
             [] k = "Left" -> dpadState.left
             [] k = "Right" -> dpadState.right]

\* buttonEntityMap after the discovery over queries.buttons
Discover(map) ==
    [n \in ButtonNames |->
       IF map[n] # 0 THEN map[n]
       ELSE IF \E b \in Buttons : meshName[b] = n
            THEN CHOOSE b \in Buttons : meshName[b] = n
            ELSE 0]

\* variant: an initialization is started whenever no emulator is installed
NESFrameKindEager ==
    IF ~session THEN "noSession"
    ELSE IF nes = "none" THEN "starting"
    ELSE IF isInitializing THEN "waiting"
    ELSE "pushed"

\* the return taken by update(): the guards in source order
NESFrameKind ==
    IF ~session THEN "noSession"
    ELSE IF nes = "none" /\ ~isInitializing THEN "starting"
    ELSE IF nes = "none" \/ isInitializing THEN "waiting"
    ELSE "pushed"

\* variant: the aggregator reads the values of the tick before
NESSystemUpdateStale ==
    /\ nesFrame' = NESFrameKind
    /\ UNCHANGED <<nes, meshName, stickEntity>>
    /\ isInitializing' = (isInitializing \/ NESFrameKind = "starting")
    /\ loading' = IF NESFrameKind = "starting" THEN loading + 1 ELSE loading
    /\ IF NESFrameKind # "pushed"
       THEN UNCHANGED <<buttonEntityMap, pad>>
       ELSE /\ buttonEntityMap' = Discover(buttonEntityMap)
            /\ pad' = NESInputs(buttonEntityMap', stickEntity, currState,
                                stickX, stickY, stickMagnitude)

\* update(delta), run after the three controllers in the same tick
NESSystemUpdate ==
    /\ nesFrame' = NESFrameKind
    /\ UNCHANGED <<nes, meshName, stickEntity>>
    /\ isInitializing' = (isInitializing \/ NESFrameKind = "starting")
    /\ loading' = IF NESFrameKind = "starting" THEN loading + 1 ELSE loading
    /\ IF NESFrameKind # "pushed"
       THEN UNCHANGED <<buttonEntityMap, pad>>
       ELSE /\ buttonEntityMap' = Discover(buttonEntityMap)
            /\ pad' = NESInputs(buttonEntityMap', stickEntity, currState',
                                stickX', stickY', stickMagnitude')

\* initializeNES() runs to its end: the ROM is loaded, loadROM rejects it,
\* or the fetch fails
NESInitialized ==
    /\ loading > 0
    /\ \E outcome \in {"loaded", "empty", "none"} :
          /\ nes' = outcome
          /\ pad' = IF outcome = "none" THEN pad ELSE [k \in PadButtons |-> FALSE]
    /\ isInitializing' = FALSE
    /\ loading' = loading - 1
    /\ UNCHANGED <<meshName, buttonEntityMap, stickEntity, nesFrame>>

\* world.update(delta): the systems in registration order
Tick(delta, fb) ==
    /\ ButtonSystemUpdate(delta)
    /\ StickGrabSystemUpdate
    /\ AnalogStickSystemUpdate(delta, fb)
    /\ NESSystemUpdate

\* a tick while no grip space is tracked
PadTick == \E delta \in Deltas : Tick(delta, [h \in HandIds |-> NoGrip])

----------------------------------------------------------------------------
\* Environment of the button controller

SetSession ==
    /\ session' = ~session
    /\ UNCHANGED <<handAdapters, adapter, tip, grip, source>>

SetHandAdapters ==
    /\ handAdapters' = ~handAdapters
    /\ UNCHANGED <<session, adapter, tip, grip, source>>

\* hand h appears, disappears or moves its index finger tip
MoveTipOf(h) ==
    \E a \in BOOLEAN, t \in TipValues :
        /\ (~a => t = NoTip)
        /\ adapter' = [adapter EXCEPT ![h] = a]
        /\ tip' = [tip EXCEPT ![h] = t]
        /\ UNCHANGED <<session, handAdapters, grip, source>>

MoveTip == \E h \in HandIds : MoveTipOf(h)

\* the grip space of hand h moves, is lost or is found again
MoveGrip ==
    \E h \in HandIds, g \in GripValues :
        /\ grip' = [grip EXCEPT ![h] = g]
        /\ UNCHANGED <<session, handAdapters, adapter, tip, source>>

\* the input source of side h comes, goes, or its trigger moves
SetSource ==
    \E h \in HandIds, v \in SourceValues :
        /\ source' = [source EXCEPT ![h] = v]
        /\ UNCHANGED <<session, handAdapters, adapter, tip, grip>>

\* the grip space of a tracked hand moves around the first stick, is lost
\* or is found again
MoveAnchor ==
    \E h \in HandIds, g \in AnchorValues :
        /\ adapter[h]
        /\ grip' = [grip EXCEPT ![h] = g]
        /\ UNCHANGED <<session, handAdapters, adapter, tip, source>>

\* the select trigger of a tracked hand
SetTrigger ==
    \E h \in HandIds, v \in SourceValues :
        /\ adapter[h]
        /\ source' = [source EXCEPT ![h] = v]
        /\ UNCHANGED <<session, handAdapters, adapter, tip, grip>>

----------------------------------------------------------------------------

\* no session yet, no hand tracked
InitSensors ==
    /\ session = FALSE
    /\ handAdapters = TRUE
    /\ adapter = [h \in HandIds |-> FALSE]
    /\ tip = [h \in HandIds |-> NoTip]
    /\ grip = [h \in HandIds |-> NoGrip]
    /\ source = [h \in HandIds |-> "nosource"]

\* a session has started and both hand adapters exist; nothing is tracked yet
InitTracked ==
    /\ session = TRUE
    /\ handAdapters = TRUE
    /\ adapter = [h \in HandIds |-> TRUE]
    /\ tip = [h \in HandIds |-> NoTip]
    /\ grip = [h \in HandIds |-> NoGrip]
    /\ source = [h \in HandIds |-> "nosource"]

\* Button defaults; restingY is captured by the qualify handler when it runs
\* for the entity, and lazily by update() otherwise
InitButtons ==
    /\ posY \in [Buttons -> InitialYs]
    /\ restingY \in [Buttons -> {RestingYDefault} \cup InitialYs]
    /\ \A b \in Buttons : restingY[b] \in {RestingYDefault, posY[b]}
    /\ buttonActions \in [Buttons -> BOOLEAN]
    /\ currState = [b \in Buttons |-> "resting"]
    /\ prevState = [b \in Buttons |-> "resting"]
    /\ actionTriggered = [b \in Buttons |-> FALSE]
    /\ buttonFrame = "none"
    /\ fired = [b \in Buttons |-> FALSE]
    /\ holdFires = [b \in Buttons |-> 0]
    /\ gestureFires = [b \in Buttons |-> 0]

\* StickGrab defaults, empty maps, sticks at rest
InitGrab ==
    /\ stickPos = [s \in StickIds |-> StickRest[s]]
    /\ attached = [s \in StickIds |-> FALSE]
    /\ justAttached = [s \in StickIds |-> FALSE]
    /\ justDetached = [s \in StickIds |-> FALSE]
    /\ attachedHands = [s \in StickIds |-> "none"]
    /\ previousButtonStates = [h \in HandIds |-> FALSE]
    /\ handStarted = [h \in HandIds |-> FALSE]
    /\ handStopped = [h \in HandIds |-> FALSE]
    /\ grabFrame = "none"
    /\ attachTicks = [s \in StickIds |-> 0]
    /\ detachTicks = [s \in StickIds |-> 0]

\* AnalogStick defaults, empty maps
InitStick ==
    /\ grabbedHands = [s \in StickIds |-> "none"]
    /\ grabHandPositions = [s \in StickIds |-> NoGrip]
    /\ stickX = [s \in StickIds |-> 0]
    /\ stickY = [s \in StickIds |-> 0]
    /\ stickMagnitude = [s \in StickIds |-> 0]
    /\ isActive = [s \in StickIds |-> FALSE]
    /\ stickFrame = [s \in StickIds |-> "none"]
    /\ anchorUsed = [s \in StickIds |-> NoGrip]

\* NESSystem fields after init(): the entities found are mapped by name
InitNES ==
    /\ nes = "none"
    /\ isInitializing = FALSE
    /\ meshName \in [Buttons -> ButtonNames]
    /\ buttonEntityMap =
         [n \in ButtonNames |->
            IF \E b \in Buttons : meshName[b] = n
            THEN CHOOSE b \in Buttons : meshName[b] = n ELSE 0]
    /\ stickEntity \in {0, Sticks[1]}
    /\ pad = [k \in PadButtons |-> FALSE]
    /\ nesFrame = "none"
    /\ loading = 0

\* the panel with its first button and its stick
PanelNES ==
    /\ InitNES
    /\ meshName = [b \in Buttons |-> "button1"]
    /\ stickEntity = Sticks[1]

\* world.update has not run yet
InitLoop ==
    /\ turn = [system |-> "ButtonSystem", delta |-> 0]
    /\ clock = [running |-> FALSE, oldTime |-> 0, now |-> 0, tickAt |-> 0]

\* the panel as index.ts builds it: buttons at y = 0 with an action
PanelButtons ==
    /\ InitButtons
    /\ posY = [b \in Buttons |-> 0]
    /\ restingY = [b \in Buttons |-> RestingYDefault]
    /\ buttonActions = [b \in Buttons |-> TRUE]

\* a session in which only the left hand is tracked
InitOneHand ==
    /\ session = TRUE
    /\ handAdapters = TRUE
    /\ adapter = [h \in HandIds |-> h = "left"]
    /\ tip = [h \in HandIds |-> NoTip]
    /\ grip = [h \in HandIds |-> NoGrip]
    /\ source = [h \in HandIds |-> "nosource"]

InitButton == InitSensors /\ InitButtons /\ InitGrab /\ InitStick /\ PanelNES /\ InitLoop
InitGrabbing == InitTracked /\ PanelButtons /\ InitGrab /\ InitStick /\ PanelNES /\ InitLoop

ButtonNext ==
    \/ SetSession /\ UNCHANGED <<buttonVars, grabVars, stickVars, nesVars, turn, clock>>
    \/ MoveTip /\ UNCHANGED <<buttonVars, grabVars, stickVars, nesVars, turn, clock>>
    \/ ButtonFrame /\ UNCHANGED <<grabVars, stickVars, nesVars, turn, clock>>

\* the button controller under every tracking input
SpecButton == InitButton /\ [][ButtonNext]_vars

GrabNext ==
    \/ MoveGrip /\ UNCHANGED <<buttonVars, grabVars, stickVars, nesVars, turn, clock>>
    \/ SetSource /\ UNCHANGED <<buttonVars, grabVars, stickVars, nesVars, turn, clock>>
    \/ GrabFrame /\ UNCHANGED <<buttonVars, stickVars, nesVars, turn, clock>>

\* the grab arbiter under every tracking input
SpecGrab == InitGrabbing /\ [][GrabNext]_vars

GrabXrNext ==
    \/ SetSession /\ UNCHANGED <<buttonVars, grabVars, stickVars, nesVars, turn, clock>>
    \/ SetHandAdapters /\ UNCHANGED <<buttonVars, grabVars, stickVars, nesVars, turn, clock>>
    \/ SetSource /\ UNCHANGED <<buttonVars, grabVars, stickVars, nesVars, turn, clock>>
    \/ MoveGrip /\ UNCHANGED <<buttonVars, grabVars, stickVars, nesVars, turn, clock>>
    \/ GrabFrame /\ UNCHANGED <<buttonVars, stickVars, nesVars, turn, clock>>

\* the grab arbiter while the session and the hand adapters come and go
SpecGrabXr == InitGrabbing /\ [][GrabXrNext]_vars

InitSticks == InitOneHand /\ PanelButtons /\ InitGrab /\ InitStick /\ PanelNES /\ InitLoop

StickNext ==
    \/ MoveAnchor /\ UNCHANGED <<buttonVars, grabVars, stickVars, nesVars, turn, clock>>
    \/ SetTrigger /\ UNCHANGED <<buttonVars, grabVars, stickVars, nesVars, turn, clock>>
    \/ StickTick /\ UNCHANGED <<buttonVars, nesVars, turn, clock>>

\* grab arbiter and axis mapper, tick by tick, with one tracked hand
SpecStick == InitSticks /\ [][StickNext]_vars

InitPad ==
    /\ InitSensors /\ PanelButtons /\ InitGrab /\ InitStick /\ InitNES /\ InitLoop
    /\ stickEntity = Sticks[1]

PadNext ==
    \/ SetSession /\ UNCHANGED <<buttonVars, grabVars, stickVars, nesVars, turn, clock>>
    \/ MoveTipOf(Hands[1]) /\ UNCHANGED <<buttonVars, grabVars, stickVars, nesVars, turn, clock>>
    \/ NESInitialized /\ UNCHANGED <<sensorVars, buttonVars, grabVars, stickVars, turn, clock>>
    \/ PadTick /\ UNCHANGED <<turn, clock>>

\* the buttons under one hand and the aggregator, tick by tick, around the
\* ROM load
SpecPad == InitPad /\ [][PadNext]_vars

\* tick durations of the panel, ms
PanelDeltas == {0, 200}

\* places of a hand around the first stick, on both diagonals through its
\* rest position
PanelPlaces == {<<0, 0>>, <<180, 240>>, <<180, -240>>, <<-180, 240>>, <<-180, -240>>}
PanelAnchors ==
    {NoGrip} \cup {[found |-> TRUE, x |-> p[1], z |-> p[2]] : p \in PanelPlaces}

\* no button is being pressed or on its way back
ButtonsIdle ==
    \A b \in Buttons : currState[b] = "resting" /\ prevState[b] = "resting"

\* no stick is held, deflected or on its way back
SticksIdle ==
    \A s \in StickIds :
        ~attached[s] /\ ~justDetached[s] /\ ~isActive[s] /\ stickPos[s] = StickRest[s]

\* the tracked hand reaches for the stick while its finger is off the buttons
ReachStick ==
    \E g \in PanelAnchors :
        /\ adapter[Hands[1]] /\ tip[Hands[1]] = NoTip /\ ButtonsIdle
        /\ grip' = [grip EXCEPT ![Hands[1]] = g]
        /\ UNCHANGED <<session, handAdapters, adapter, tip, source>>

\* the select trigger of the tracked hand, its finger off the buttons
PullTrigger == tip[Hands[1]] = NoTip /\ ButtonsIdle /\ SetTrigger

\* the tracked hand touches the buttons while it is away from the stick
TouchButton ==
    /\ grip[Hands[1]] = NoGrip /\ source[Hands[1]] = "nosource" /\ SticksIdle
    /\ MoveTipOf(Hands[1])

\* a tick of the whole panel
PanelTick ==
    \E delta \in PanelDeltas, fb \in {f \in Fallbacks : f[Hands[2]] = NoGrip} :
        Tick(delta, fb)

InitPanel == InitOneHand /\ PanelButtons /\ InitGrab /\ InitStick /\ PanelNES /\ InitLoop

PanelNext ==
    \/ ReachStick /\ UNCHANGED <<buttonVars, grabVars, stickVars, nesVars, turn, clock>>
    \/ TouchButton /\ UNCHANGED <<buttonVars, grabVars, stickVars, nesVars, turn, clock>>
    \/ PullTrigger /\ UNCHANGED <<buttonVars, grabVars, stickVars, nesVars, turn, clock>>
    \/ NESInitialized /\ UNCHANGED <<sensorVars, buttonVars, grabVars, stickVars, turn, clock>>
    \/ PanelTick /\ UNCHANGED <<turn, clock>>

\* the whole panel under one hand, tick by tick
SpecPanel == InitPanel /\ [][PanelNext]_vars

\* the StickGrab fields and the tables of the grab arbiter
grabFields ==
    <<attached, justAttached, justDetached, attachedHands, previousButtonStates>>

\* the rest of what StickGrabSystem keeps
grabNotes == <<handStarted, handStopped, grabFrame, attachTicks, detachTicks>>

\* world.update is between two ticks
BetweenTicks == turn.system = "ButtonSystem"

\* world.update(delta) hands delta to ButtonSystem, the first system
ButtonTurn ==
    /\ turn.system = "ButtonSystem"
    /\ \E delta \in PanelDeltas :
          /\ ButtonSystemUpdate(delta)
          /\ turn' = [system |-> "StickGrabSystem", delta |-> delta]
          /\ UNCHANGED clock
    /\ UNCHANGED <<grabVars, stickVars, nesVars>>

\* then to StickGrabSystem
GrabTurn ==
    /\ turn.system = "StickGrabSystem"
    /\ StickGrabSystemUpdate
    /\ turn' = [turn EXCEPT !.system = "AnalogStickSystem"]
    /\ UNCHANGED clock
    /\ UNCHANGED <<stickPos, buttonVars, stickVars, nesVars>>

\* variant: the axis mapper consumes the detach pulse
MapperTurnClearing ==
    /\ turn.system = "AnalogStickSystem"
    /\ UNCHANGED <<attached, justAttached, attachedHands, previousButtonStates>>
    /\ justDetached' = [s \in StickIds |-> FALSE]
    /\ UNCHANGED <<sensorVars, grabNotes, buttonVars, nesVars>>
    /\ \E fb \in {f \in Fallbacks : f[Hands[2]] = NoGrip} :
          AnalogStickSystemUpdate(turn.delta, fb)
    /\ turn' = [turn EXCEPT !.system = "NESSystem"]
    /\ UNCHANGED clock

\* then to AnalogStickSystem
MapperTurn ==
    /\ turn.system = "AnalogStickSystem"
    /\ UNCHANGED <<sensorVars, grabFields, grabNotes, buttonVars, nesVars>>
    /\ \E fb \in {f \in Fallbacks : f[Hands[2]] = NoGrip} :
          AnalogStickSystemUpdate(turn.delta, fb)
    /\ turn' = [turn EXCEPT !.system = "NESSystem"]
    /\ UNCHANGED clock

\* then to NESSystem, the last of the four
AggregatorTurn ==
    /\ turn.system = "NESSystem"
    /\ UNCHANGED <<sensorVars, buttonVars, grabVars, stickVars>>
    /\ NESSystemUpdate
    /\ turn' = [system |-> "ButtonSystem", delta |-> 0]
    /\ UNCHANGED clock

\* the sensors and the ROM load move between two ticks only
LoopNext ==
    \/ BetweenTicks /\ ReachStick /\ UNCHANGED <<buttonVars, grabVars, stickVars, nesVars, turn, clock>>
    \/ BetweenTicks /\ TouchButton /\ UNCHANGED <<buttonVars, grabVars, stickVars, nesVars, turn, clock>>
    \/ BetweenTicks /\ PullTrigger /\ UNCHANGED <<buttonVars, grabVars, stickVars, nesVars, turn, clock>>
    \/ BetweenTicks /\ NESInitialized /\ UNCHANGED <<sensorVars, buttonVars, grabVars, stickVars, turn, clock>>
    \/ ButtonTurn
    \/ GrabTurn
    \/ MapperTurn
    \/ AggregatorTurn

\* the whole panel under one hand, system by system
SpecLoop == InitPanel /\ [][LoopNext]_vars

\* positive tick durations, ms: returnSpeed * delta is 1 and 2
ReturnDeltas == {200, 400}

\* xrInput.update(xrFrame, time): the tracked hand's grip space and input
\* source as the new frame reports them
ReturnSense ==
    /\ turn.system = "XRInputManager"
    /\ \E g \in AnchorValues, v \in SourceValues :
          /\ grip' = [grip EXCEPT ![Hands[1]] = g]
          /\ source' = [source EXCEPT ![Hands[1]] = v]
    /\ turn' = [system |-> "ButtonSystem", delta |-> 0]
    /\ UNCHANGED clock
    /\ UNCHANGED <<session, handAdapters, adapter, tip>>

\* world.update with a positive duration; the next frame starts with the
\* input manager
ReturnTick ==
    /\ turn.system = "ButtonSystem"
    /\ \E delta \in ReturnDeltas, fb \in {f \in Fallbacks : f[Hands[2]] = NoGrip} :
          Tick(delta, fb)
    /\ turn' = [system |-> "XRInputManager", delta |-> 0]
    /\ UNCHANGED clock

\* the input manager's part of a frame; the systems do not run in it
SenseFrame == ReturnSense /\ UNCHANGED <<buttonVars, grabVars, stickVars, nesVars>>

ReturnNext ==
    \/ SenseFrame
    \/ NESInitialized /\ UNCHANGED <<sensorVars, buttonVars, grabVars, stickVars, turn, clock>>
    \/ ReturnTick

\* the stick and the aggregator under one hand, frame by frame: input
\* manager, then world.update
SpecReturn == InitPanel /\ [][ReturnNext]_vars

\* every callback of the animation loop runs to its end: world.update
\* returns and the next frame begins with the input manager
LoopRuns == []<>(turn.system = "XRInputManager")

\* the browser keeps calling the animation loop's callback, and every
\* callback completes
SpecReturnFair == SpecReturn /\ WF_vars(SenseFrame) /\ LoopRuns

\* time between two animation frames, ms: a 60 Hz and a 30 Hz display
FrameTimes == {16, 33}
\* time the callback spends between its two clock.getDelta() calls, ms
WorkTimes == {0, 1}
\* the time followed, ms
MaxTime == 100

\* Clock.getDelta() at time t, ms: the first call starts the clock and
\* returns 0, a later call returns the time since the previous call and
\* restarts the measurement
GetDelta(c, t) ==
    IF ~c.running
    THEN [delta |-> 0, clock |-> [c EXCEPT !.running = TRUE, !.oldTime = t]]
    ELSE [delta |-> t - c.oldTime, clock |-> [c EXCEPT !.oldTime = t]]

\* one callback of setAnimationLoop, started elapsed ms after the previous
\* one: clock.getDelta() for the input manager, then a second
\* clock.getDelta() whose value is handed to world.update
AnimationLoop ==
    \E elapsed \in FrameTimes, work \in WorkTimes,
       fb \in {f \in Fallbacks : f[Hands[2]] = NoGrip} :
        LET started == clock.now + elapsed
            first == GetDelta(clock, started)
            second == GetDelta(first.clock, started + work)
        IN  /\ started + work <= MaxTime
            /\ Tick(second.delta, fb)
            /\ turn' = [system |-> "ButtonSystem", delta |-> second.delta]
            /\ clock' = [second.clock EXCEPT !.now = started + work,
                                             !.tickAt = started]

ClockNext ==
    \/ TouchButton /\ UNCHANGED <<buttonVars, grabVars, stickVars, nesVars, turn, clock>>
    \/ AnimationLoop

\* the panel's buttons under one hand, driven by the animation loop's clock
SpecClock == InitPanel /\ [][ClockNext]_vars

----------------------------------------------------------------------------
\* Properties of the button controller (SpecButton)

\* C1: after every processed frame the mesh offset of every button lies in
\* [restingY - fullPressDistance, restingY]; a recovery step never leaves it
\* above restingY.
C1_OffsetWithinTravel ==
    \A b \in Buttons :
        restingY[b] # RestingYDefault =>
            /\ restingY[b] - FullPressDistance <= posY[b]
            /\ posY[b] <= restingY[b]

\* C2: while a button with a registered action stays fully_pressed over
\* consecutive processed frames, the action has been invoked exactly once in
\* that run: on its first frame, and on no later frame.
C2_HoldFiresOnce ==
    \A b \in Buttons :
        (buttonActions[b] /\ currState[b] = "fully_pressed") =>
            /\ holdFires[b] = 1
            /\ (prevState[b] = "fully_pressed" => ~fired[b])
            /\ (buttonFrame = "processed" /\ prevState[b] # "fully_pressed"
                    => fired[b])

\* a hold in its second or later processed frame
C2_Witness ==
    \E b \in Buttons :
        /\ buttonActions[b]
        /\ buttonFrame = "processed"
        /\ currState[b] = "fully_pressed"
        /\ prevState[b] = "fully_pressed"
        /\ ~fired[b]

\* C3: within one press gesture (consecutive processed frames that all have
\* an intrusion) the action is invoked at most once, also when the depth
\* moves around fullPressDistance.
C3_OncePerGesture ==
    \A b \in Buttons : gestureFires[b] <= 1

\* C4: a frame of an active session with an empty hand list releases every
\* button: none is left pressed or fully_pressed.
C4_NoHandsReleases ==
    buttonFrame = "noHands" =>
        \A b \in Buttons : currState[b] \in {"resting", "recovering"}

----------------------------------------------------------------------------
\* Properties of the grab arbiter (SpecGrab)

\* hand h is read by the frame and its trigger is pressed now and was not
\* pressed at its previously recorded observation
RisingEdge(h) ==
    /\ adapter[h] /\ grip[h].found
    /\ source[h] = "down"
    /\ ~previousButtonStates[h]

\* s is within capture radius of hand h
InReach(h, s) ==
    grip[h].found /\ Dist2(stickPos[s], grip[h]) < CaptureRadius * CaptureRadius

\* s is the unattached stick nearest to hand h
NearestFree(h, s) ==
    /\ ~attached[s]
    /\ \A t \in StickIds \ {s} :
         ~attached[t] => Dist2(stickPos[s], grip[h]) < Dist2(stickPos[t], grip[h])

\* a step that is one update() of the grab arbiter
IsGrabFrame == grabFrame' = "processed" /\ UNCHANGED sensorVars

\* C5: a stick has at most one owner, and attached is true exactly when an
\* owner is recorded for it in attachedHands.
C5_AttachedIffOwner ==
    \A s \in StickIds :
        /\ attachedHands[s] \in HandIds \cup {"none"}
        /\ attached[s] <=> attachedHands[s] # "none"

\* a stick that was attached and has been released again, beside one that
\* is held
C5_Witness ==
    \E s, t \in StickIds :
        /\ justDetached[s] /\ ~attached[s]
        /\ attached[t] /\ attachedHands[t] # "none"

\* C6: a rising select edge of a hand whose nearest unattached stick is
\* within capture radius attaches that stick in the same frame, whatever the
\* other hands do.
C6_RisingEdgeAttaches ==
    [][IsGrabFrame =>
         \A h \in HandIds, s \in StickIds :
            (RisingEdge(h) /\ NearestFree(h, s) /\ InReach(h, s)) =>
                /\ attached'[s]
                /\ justAttached'[s]
                /\ attachedHands'[s] # "none"]_vars

\* C7: two hands with a rising edge in the same frame, both within capture
\* radius of the same unattached stick (the nearest one for both): the stick
\* is attached once, to the nearer hand.
C7_NearestHandWins ==
    [][IsGrabFrame =>
         \A h1, h2 \in HandIds, s \in StickIds :
            (/\ h1 # h2
             /\ RisingEdge(h1) /\ NearestFree(h1, s) /\ InReach(h1, s)
             /\ RisingEdge(h2) /\ NearestFree(h2, s) /\ InReach(h2, s)
             /\ Dist2(stickPos[s], grip[h1]) < Dist2(stickPos[s], grip[h2])) =>
                /\ attached'[s]
                /\ attachedHands'[s] = h1]_vars

\* C8: two hands with a rising edge in the same frame, equidistant from the
\* same unattached stick and within capture radius: the hand first in input
\* order becomes the owner.
C8_FirstHandWinsTie ==
    [][IsGrabFrame =>
         \A s \in StickIds :
            (/\ RisingEdge(Hands[1]) /\ NearestFree(Hands[1], s) /\ InReach(Hands[1], s)
             /\ RisingEdge(Hands[2]) /\ NearestFree(Hands[2], s) /\ InReach(Hands[2], s)
             /\ Dist2(stickPos[s], grip[Hands[1]]) = Dist2(stickPos[s], grip[Hands[2]])) =>
                /\ attached'[s]
                /\ attachedHands'[s] = Hands[1]]_vars

\* C9: a stick goes from detached to attached only in a frame in which the
\* hand recorded as its owner had a rising select edge (pressed now, not
\* pressed at its previously recorded observation).
C9_AttachOnlyOnRisingEdge ==
    [][\A s \in StickIds :
         (~attached[s] /\ attached'[s]) =>
            /\ attachedHands'[s] # "none"
            /\ source[attachedHands'[s]] = "down"
            /\ ~previousButtonStates[attachedHands'[s]]
            /\ UNCHANGED sensorVars]_vars

\* a stick attached by this frame while the other hand, trigger held since
\* an earlier frame, is within reach of a stick without owning one
C9_Witness ==
    \E s \in StickIds, h \in HandIds :
        /\ justAttached[s] /\ attachedHands[s] \notin {"none", h}
        /\ source[h] = "down" /\ ~handStarted[h] /\ previousButtonStates[h]
        /\ \E t \in StickIds : InReach(h, t)
        /\ \A t \in StickIds : attachedHands[t] # h

\* C10: the owner of a stick never changes while the stick stays attached;
\* an owner is only ever replaced after the stick has been detached.
C10_OwnerStable ==
    [][\A s \in StickIds :
         (attachedHands[s] # "none" /\ attachedHands'[s] # "none") =>
            attachedHands'[s] = attachedHands[s]]_vars

\* a held stick within reach of the other hand on the frame that hand's
\* trigger rose
C10_Witness ==
    \E s \in StickIds, h \in HandIds :
        /\ grabFrame = "processed"
        /\ attached[s] /\ ~justAttached[s]
        /\ attachedHands[s] \notin {"none", h}
        /\ handStarted[h] /\ source[h] = "down"
        /\ InReach(h, s)
        /\ \A t \in StickIds : attachedHands[t] # h

C12_PulsesExclusive ==
    \A s \in StickIds : ~(justAttached[s] /\ justDetached[s])

\* one stick attached and the other detached by the same frame
C12_Witness ==
    \E s, t \in StickIds : justAttached[s] /\ justDetached[t]

\* C13: over the updates of the grab arbiter, whatever the session and the
\* hand adapters do, a pulse that is set after one update is clear after the
\* next: no pulse is seen set on two consecutive ticks.
C13_PulseOneTick ==
    \A s \in StickIds : attachTicks[s] <= 1 /\ detachTicks[s] <= 1

----------------------------------------------------------------------------
\* Properties of the axis mapper (SpecStick)

\* a step that is one tick of the stick
IsStickTick == UNCHANGED sensorVars

\* clamp(v, lo, hi)
Clamp(v, lo, hi) == IF v < lo THEN lo ELSE IF v > hi THEN hi ELSE v

\* C14: on every attached frame in which the owner's position is available
\* the axis is computed, and the magnitude equals clamp(planarDistance /
\* maxRadius, 0, 1) for the planar distance between the owner's current
\* position and the grab-reference point; axisX and axisY lie in [-1, 1].
C14_MagnitudeLaw ==
    [][IsStickTick =>
         \A s \in StickIds :
            attached'[s] =>
                LET owner == attachedHands'[s]
                    anchor == anchorUsed'[s]
                    ref == grabHandPositions'[s]
                IN  /\ stickFrame'[s] \in {"axis", "noPosition"}
                    /\ grip[owner].found =>
                          (stickFrame'[s] = "axis" /\ anchor = grip[owner])
                    /\ stickFrame'[s] = "axis" =>
                          /\ anchor.found /\ ref.found
                          /\ stickMagnitude'[s] =
                                Clamp(PlanarDistance(anchor, ref), 0, MaxRadius)
                          /\ stickX'[s] \in -MaxRadius .. MaxRadius
                          /\ stickY'[s] \in -MaxRadius .. MaxRadius]_vars

\* a held stick deflected by less than maxRadius on a frame after the grab
C14_Witness ==
    \E s \in StickIds :
        /\ attached[s] /\ ~justAttached[s] /\ stickFrame[s] = "axis"
        /\ stickMagnitude[s] > 0 /\ stickMagnitude[s] < MaxRadius
        /\ stickMagnitude[s] = PlanarDistance(anchorUsed[s], grabHandPositions[s])

\* C15: after every frame, attached or detached, for every frame duration,
\* the stored axisX and axisY of every stick lie in [-1, 1].
C15_AxisBounded ==
    \A s \in StickIds :
        /\ stickX[s] \in -MaxRadius .. MaxRadius
        /\ stickY[s] \in -MaxRadius .. MaxRadius

\* C16: over the frames in which a stick stays detached, its distance from
\* the rest position does not increase, for every positive frame duration.
C16_ReturnNonIncreasing ==
    [][IsStickTick =>
         \A s \in StickIds :
            (~attached[s] /\ ~attached'[s]) =>
                Dist2(stickPos'[s], InitialPos(s)) <= Dist2(stickPos[s], InitialPos(s))]_vars

\* C17: on every attached frame in which the axis is computed, isActive is
\* true exactly when the computed magnitude is greater than 0.
C17_ActiveIffDeflected ==
    \A s \in StickIds :
        (attached[s] /\ stickFrame[s] = "axis") =>
            (isActive[s] <=> stickMagnitude[s] > 0)

\* C18: on an attached frame where the owner's planar displacement from the
\* grab-reference point exceeds maxRadius, magnitude = 1, the vector
\* (axisX, axisY) has length 1 and the direction of the displacement, and
\* the stick sits at that vector from its rest position.
C18_HardClamp ==
    \A s \in StickIds :
        LET anchor == anchorUsed[s]
            ref == grabHandPositions[s]
            dX == anchor.x - ref.x
            dZ == anchor.z - ref.z
        IN  (/\ attached[s] /\ stickFrame[s] = "axis"
             /\ Dist2(anchor, ref) > MaxRadius * MaxRadius) =>
                /\ stickMagnitude[s] = MaxRadius
                /\ stickX[s] * stickX[s] + stickY[s] * stickY[s] = MaxRadius * MaxRadius
                /\ stickX[s] * dZ = stickY[s] * dX
                /\ stickX[s] * dX >= 0 /\ stickY[s] * dZ >= 0
                /\ stickPos[s].x = InitialPos(s).x + stickX[s]
                /\ stickPos[s].z = InitialPos(s).z + stickY[s]

\* a held stick whose owner has moved beyond maxRadius, off both axes
C18_Witness ==
    \E s \in StickIds :
        /\ attached[s] /\ stickFrame[s] = "axis"
        /\ Dist2(anchorUsed[s], grabHandPositions[s]) > MaxRadius * MaxRadius
        /\ stickX[s] # 0 /\ stickY[s] # 0

\* C19: the grab-reference point is the owner's position on the frame the
\* stick became attached and does not change on later attached frames; on
\* the attach frame axisX = axisY = magnitude = 0 and the stick is at its
\* rest position, wherever it was before.
C19_ReferenceFixed ==
    [][IsStickTick =>
         \A s \in StickIds :
            /\ (~attached[s] /\ attached'[s]) =>
                  /\ grabHandPositions'[s] = grip[attachedHands'[s]]
                  /\ grabHandPositions'[s].found
                  /\ stickX'[s] = 0 /\ stickY'[s] = 0 /\ stickMagnitude'[s] = 0
                  /\ stickPos'[s] = InitialPos(s)
            /\ (attached[s] /\ attached'[s]) =>
                  grabHandPositions'[s] = grabHandPositions[s]]_vars

\* a later frame of an attachment: the owner has moved away from the
\* reference point, which is still where the grab began
C19_Witness ==
    \E s \in StickIds :
        /\ attached[s] /\ ~justAttached[s] /\ stickFrame[s] = "axis"
        /\ grabHandPositions[s].found
        /\ anchorUsed[s] # grabHandPositions[s]
        /\ grabbedHands[s] = attachedHands[s]

----------------------------------------------------------------------------
\* Properties of the aggregator (SpecPad)

\* the mesh name each logical button reads
NameOfButton ==
    [k \in {"A", "B", "Select", "Start"} |->
       CASE k = "A" -> "button2"
         [] k = "B" -> "button1"
         [] k = "Select" -> "button3"
         [] k = "Start" -> "button4"]

\* C20: after every update that pushed inputs to the emulator, each of A,
\* B, Select and Start is down exactly when an entity is mapped for it and
\* that entity's current state is pressed or fully_pressed; it is up when
\* the state is resting or recovering, or no entity is mapped.
C20_ButtonsFollowState ==
    nesFrame = "pushed" =>
        \A k \in DOMAIN NameOfButton :
            LET entity == buttonEntityMap[NameOfButton[k]]
            IN  pad[k] <=> (entity # 0 /\ currState[entity] \in {"pressed", "fully_pressed"})

\* a button pressed short of fullPressDistance and reported down, beside
\* logical buttons without an entity reported up
C20_Witness ==
    \E k \in DOMAIN NameOfButton :
        /\ nesFrame = "pushed" /\ buttonFrame = "processed"
        /\ buttonEntityMap[NameOfButton[k]] # 0
        /\ currState[buttonEntityMap[NameOfButton[k]]] = "pressed"
        /\ pad[k]
        /\ \E j \in DOMAIN NameOfButton : buttonEntityMap[NameOfButton[j]] = 0 /\ ~pad[j]

----------------------------------------------------------------------------
\* Properties of the whole panel (SpecPanel)

\* C21: once the aggregator pushes signals, up is on exactly when the stored
\* magnitude is above 0.3 and the stored Y axis is below -0.5, down when the
\* magnitude is above 0.3 and Y is above 0.5, left when the magnitude is
\* above 0.3 and X is below -0.5, right when the magnitude is above 0.3 and
\* X is above 0.5; the vertical and the horizontal pair do not constrain
\* each other.
C21_DpadThresholds ==
    (nesFrame = "pushed" /\ stickEntity # 0) =>
        LET over == 10 * stickMagnitude[stickEntity] > 3 * MaxRadius
            axisX == stickX[stickEntity]
            axisY == stickY[stickEntity]
        IN  /\ pad["Up"] <=> (over /\ 2 * axisY < -MaxRadius)
            /\ pad["Down"] <=> (over /\ 2 * axisY > MaxRadius)
            /\ pad["Left"] <=> (over /\ 2 * axisX < -MaxRadius)
            /\ pad["Right"] <=> (over /\ 2 * axisX > MaxRadius)

\* the diagonals of the pad
UpRight == nesFrame = "pushed" /\ pad["Up"] /\ pad["Right"]
UpLeft == nesFrame = "pushed" /\ pad["Up"] /\ pad["Left"]
DownRight == nesFrame = "pushed" /\ pad["Down"] /\ pad["Right"]
DownLeft == nesFrame = "pushed" /\ pad["Down"] /\ pad["Left"]

\* the held stick is pushed up and to the right
C21_Witness == UpRight /\ attached[stickEntity] /\ stickFrame[stickEntity] = "axis"

\* a tick of the panel: the sensors stand still and no ROM load ends
IsPanelTick == UNCHANGED sensorVars /\ (isInitializing => isInitializing')

\* C22: within a tick the axis mapper works from the ownership the grab
\* arbiter has just written (a stick attached in this tick is mapped from its
\* owner, a stick released in this tick is on its spring return and its
\* tracked hand is forgotten), and the signals the aggregator pushes are
\* computed from the button states and axis values written in this tick.
C22_SameTickValues ==
    [][IsPanelTick =>
        /\ \A s \in StickIds :
              /\ (attached'[s] /\ attachedHands'[s] # "none") =>
                    /\ stickFrame'[s] \in {"axis", "noPosition", "noReference"}
                    /\ grabbedHands'[s] = attachedHands'[s]
              /\ ~attached'[s] =>
                    /\ stickFrame'[s] \in {"return", "snap"}
                    /\ grabbedHands'[s] = "none"
        /\ nesFrame' = "pushed" =>
              pad' = NESInputs(buttonEntityMap', stickEntity', currState',
                               stickX', stickY', stickMagnitude')]_vars

\* the stick is released while pushed up: the same tick detaches it, maps
\* its deflection on the spring return and pushes up
C22_Witness ==
    /\ nesFrame = "pushed" /\ justDetached[stickEntity]
    /\ stickFrame[stickEntity] = "return" /\ pad["Up"]

----------------------------------------------------------------------------
\* Properties of the axis mapper, continued (SpecStick)

\* v has moved to 0 or toward 0 from u
TowardZero(u, v) ==
    \/ v = 0
    \/ u > 0 /\ v >= 0 /\ v < u
    \/ u < 0 /\ v <= 0 /\ v > u

\* C23: on a frame where the stick is attached but the position of the
\* owner's anchor cannot be obtained, the stored magnitude and both axis
\* values move to or toward 0 and do not keep the previous deflection.
C23_DegradesToNeutral ==
    [][\A s \in StickIds :
          (IsStickTick /\ attached'[s] /\ stickFrame'[s] = "noPosition") =>
              /\ TowardZero(stickMagnitude[s], stickMagnitude'[s])
              /\ TowardZero(stickX[s], stickX'[s])
              /\ TowardZero(stickY[s], stickY'[s])]_vars

\* C28: after every frame that processed a detached stick, isActive is true
\* exactly when the magnitude stored by that frame is above 0.01; after the
\* frame that snapped the stick to its rest position isActive is false.
C28_ActiveAboveJitter ==
    \A s \in StickIds :
        /\ stickFrame[s] = "return" =>
              (isActive[s] <=> 100 * stickMagnitude[s] > MaxRadius)
        /\ stickFrame[s] = "snap" => (~isActive[s] /\ stickMagnitude[s] = 0)

\* a released stick on its way back, half deflected and still active
C28_Witness ==
    \E s \in StickIds :
        /\ ~attached[s] /\ stickFrame[s] = "return"
        /\ isActive[s] /\ 2 * stickMagnitude[s] <= MaxRadius

\* C29: after every frame, attached or detached, for every frame duration,
\* the stored magnitude of every stick lies in [0, 1].
C29_MagnitudeBounded ==
    \A s \in StickIds : stickMagnitude[s] \in 0 .. MaxRadius

\* a released stick that the spring return has carried beyond maxRadius:
\* the magnitude is stored as 1
C29_Witness ==
    \E s \in StickIds :
        /\ ~attached[s] /\ stickFrame[s] = "return"
        /\ stickMagnitude[s] = MaxRadius
        /\ stickX[s] * stickX[s] + stickY[s] * stickY[s] > MaxRadius * MaxRadius

----------------------------------------------------------------------------
\* Properties of the button controller, continued (SpecButton)

\* C24: once restingY has been captured from the mesh it never changes, for
\* every initial position of the mesh, zero and negative included.
C24_RestingFixed ==
    [][\A b \in Buttons :
          restingY[b] # RestingYDefault => restingY'[b] = restingY[b]]_vars

----------------------------------------------------------------------------
\* Properties of the loop, system by system (SpecLoop)

\* the step is the update of system sys
Ran(sys) == turn.system = sys /\ turn'.system # sys

\* the Button fields, the AnalogStick fields and the private maps of the
\* axis mapper
buttonFields == <<restingY, currState, prevState, actionTriggered>>
stickFields ==
    <<stickX, stickY, stickMagnitude, isActive, grabbedHands, grabHandPositions>>

\* C25: the StickGrab fields, the owner table and the previous-trigger table
\* change only in the update of the grab arbiter; the AnalogStick fields and
\* the mapper's grab-reference data change only in the update of the axis
\* mapper, which changes no StickGrab field and not the owner table; the
\* Button fields change only in the update of the button controller; the
\* update of the aggregator changes none of them.
C25_ExclusiveWrites ==
    [][/\ grabFields' # grabFields => Ran("StickGrabSystem")
       /\ stickFields' # stickFields => Ran("AnalogStickSystem")
       /\ buttonFields' # buttonFields => Ran("ButtonSystem")
       /\ Ran("AnalogStickSystem") => UNCHANGED <<grabFields, buttonFields>>
       /\ Ran("NESSystem") => UNCHANGED <<grabFields, stickFields, buttonFields>>]_vars

\* the axis mapper has just mapped a deflected stick from its owner and the
\* aggregator is next
C25_Witness ==
    /\ turn.system = "NESSystem"
    /\ attached[Sticks[1]] /\ attachedHands[Sticks[1]] = Hands[1]
    /\ stickFrame[Sticks[1]] = "axis" /\ stickMagnitude[Sticks[1]] > 0

\* C26: a fully pressed button whose manipulators have withdrawn is
\* recovering after the next processed frame: no processed frame takes a
\* button from fully_pressed directly to resting.
C26_RecoversFirst ==
    \A b \in Buttons :
        buttonFrame = "processed" =>
            ~(prevState[b] = "fully_pressed" /\ currState[b] = "resting")

\* C27: on every processed frame in which some manipulator intrudes a
\* button, the offset after the frame is max(restingY - D, restingY -
\* fullPressDistance) for the largest intrusion depth D, whatever the offset
\* was before, and the state is fully_pressed when that offset is restingY -
\* fullPressDistance and pressed otherwise.
C27_PressedOffset ==
    [][\A b \in Buttons :
          (/\ UNCHANGED sensorVars
           /\ ButtonFrameKind = "processed"
           /\ buttonFrame' = "processed"
           /\ Len(PressingDistances(b)) > 0) =>
              LET D == MaxOf(PressingDistances(b))
                  floor == restingY'[b] - FullPressDistance
              IN  /\ posY'[b] = Max(restingY'[b] - D, floor)
                  /\ currState'[b] =
                        IF posY'[b] = floor THEN "fully_pressed" ELSE "pressed"]_vars

\* C30: after every processed frame a button whose state is resting has its
\* offset exactly at restingY.
C30_RestingAtRest ==
    \A b \in Buttons :
        (buttonFrame = "processed" /\ currState[b] = "resting") =>
            posY[b] = restingY[b]

\* a button that has come back: recovering on the frame before, resting now
C30_Witness ==
    \E b \in Buttons :
        /\ buttonFrame = "processed"
        /\ prevState[b] = "recovering" /\ currState[b] = "resting"
        /\ posY[b] = restingY[b] /\ restingY[b] = 0

----------------------------------------------------------------------------
\* Properties of the grab arbiter, continued (SpecGrabXr, SpecGrab)

\* C32: an update of the grab arbiter that finds a stick attached while the
\* input source of its owner is absent or has no gamepad detaches the stick:
\* attached is cleared, justDetached is set and the owner entry is removed.
C32_LostSourceDetaches ==
    [][UNCHANGED sensorVars =>
         \A s \in StickIds :
            (/\ attached[s] /\ attachedHands[s] # "none"
             /\ source[attachedHands[s]] \in {"nosource", "nogamepad"}) =>
                /\ ~attached'[s]
                /\ justDetached'[s]
                /\ attachedHands'[s] = "none"]_vars

\* C33: no hand is the recorded owner of two sticks at the same time,
\* whatever frames have run, frames without a position of the hand included.
C33_OneStickPerHand ==
    \A s, t \in StickIds :
        (s # t /\ attachedHands[s] # "none") => attachedHands[s] # attachedHands[t]

\* a hand that holds one stick with its trigger down has been scanned within
\* reach of the other, unattached stick, and has not got it
C33_Witness ==
    \E h \in HandIds, s, t \in StickIds :
        /\ s # t /\ grabFrame = "processed"
        /\ attached[s] /\ ~justAttached[s] /\ attachedHands[s] = h
        /\ ~attached[t] /\ ~justDetached[t]
        /\ adapter[h] /\ grip[h].found /\ source[h] = "down"
        /\ previousButtonStates[h] /\ ~handStarted[h]
        /\ Dist2(stickPos[t], grip[h]) < CaptureRadius * CaptureRadius

\* C34: the stick a hand attaches in a frame is an unattached stick nearest
\* to the hand's anchor in that frame, at a distance strictly below the
\* capture radius 0.10; no nearer unattached stick exists, and a hand
\* attaches at most one stick per frame.
C34_NearestInReach ==
    [][IsGrabFrame =>
         \A s \in StickIds :
            (~attached[s] /\ attached'[s]) =>
                LET h == attachedHands'[s]
                IN  /\ h # "none" /\ grip[h].found
                    /\ Dist2(stickPos[s], grip[h]) < CaptureRadius * CaptureRadius
                    /\ \A t \in StickIds :
                          ~attached[t] =>
                             Dist2(stickPos[s], grip[h]) <= Dist2(stickPos[t], grip[h])
                    /\ \A t \in StickIds \ {s} :
                          (~attached[t] /\ attached'[t]) => attachedHands'[t] # h]_vars

\* the second stick has just been attached by a hand that had both sticks
\* unattached and in reach, the second one nearer
C34_Witness ==
    \E h \in HandIds :
        /\ grabFrame = "processed"
        /\ justAttached[Sticks[2]] /\ attachedHands[Sticks[2]] = h
        /\ ~attached[Sticks[1]] /\ ~justDetached[Sticks[1]]
        /\ grip[h].found /\ handStarted[h]
        /\ Dist2(stickPos[Sticks[2]], grip[h]) < Dist2(stickPos[Sticks[1]], grip[h])
        /\ Dist2(stickPos[Sticks[1]], grip[h]) < CaptureRadius * CaptureRadius

----------------------------------------------------------------------------
\* Properties of the whole panel, continued (SpecPanel)

\* C35: in every reachable state up and down are not both down on the pad,
\* and left and right are not both down.
C35_NoOpposites ==
    /\ ~(pad["Up"] /\ pad["Down"])
    /\ ~(pad["Left"] /\ pad["Right"])

\* the held stick is pushed down and to the left: one direction of each pair
C35_Witness ==
    /\ nesFrame = "pushed" /\ attached[stickEntity]
    /\ pad["Down"] /\ pad["Left"] /\ ~pad["Up"] /\ ~pad["Right"]

----------------------------------------------------------------------------
\* Properties of the spring return (SpecReturnFair)

\* no direction of the pad is down
AllUp == ~pad["Up"] /\ ~pad["Down"] /\ ~pad["Left"] /\ ~pad["Right"]

\* C36: while the animation loop keeps running with positive tick
\* durations, after a tick that released the stick while the aggregator
\* pushes, the four directions of the pad are eventually all up, unless the
\* stick is attached again first.
C36_ReleasedGoesNeutral ==
    (nesFrame = "pushed" /\ justDetached[stickEntity])
        ~> (AllUp \/ attached[stickEntity])

----------------------------------------------------------------------------
\* Properties of the aggregator around the ROM load (SpecPad)

\* C37: at most one initialization of the emulator is in progress at any
\* time, isInitializing is set exactly while one is, and a tick that starts
\* in or ends in an initialization pushes no inputs and steps no frame.
C37_SingleFlight ==
    [][/\ loading' <= 1
       /\ isInitializing' <=> (loading' = 1)
       /\ (UNCHANGED sensorVars /\ (loading > 0 \/ loading' > 0)) =>
             (nesFrame' # "pushed" /\ pad' = pad)]_vars

\* a tick has found the initialization in progress and has returned early,
\* a button being held down
C37_Witness ==
    /\ loading = 1 /\ isInitializing /\ nesFrame = "waiting"
    /\ \E b \in Buttons : currState[b] = "fully_pressed"

\* C38: the aggregator pushes signals and steps the emulator only when an
\* initialization has ended with a ROM loaded, and an initialization that
\* failed leaves no emulator instance installed.
C38_OnlyLoadedRuns ==
    /\ nesFrame = "pushed" => nes = "loaded"
    /\ nes # "empty"

----------------------------------------------------------------------------
\* Properties of the animation loop's clock (SpecClock)

\* C39: on every callback of the animation loop after the first, the
\* duration handed to world.update equals the time elapsed since the
\* previous callback
C39_DeltaIsElapsed ==
    [][(clock.running /\ clock'.now # clock.now) =>
            turn'.delta = clock'.tickAt - clock.tickAt]_vars

====
